---- MODULE Spec2Model ----
(***************************************************************************)
(* Model of src/app.py: the regex/heuristic field extractor                *)
(* extract_details and the in-memory OCR rate limiter check_rate_limit.    *)
(* A text is a sequence of one-character strings, so that the regular      *)
(* expressions, str.strip, str.split and str.lower are computed character  *)
(* by character the way the interpreter computes them.                     *)
(***************************************************************************)
EXTENDS Integers, Sequences, FiniteSets, TLC

VARIABLES inv, outputs, clock, last_ocr_call, rl, returns, ocr

vars == <<inv, outputs, clock, last_ocr_call, rl, returns, ocr>>

(***************************************************************************)
(* Characters and the character classes of Python's str and re.            *)
(***************************************************************************)
UpperSeq == <<"A","B","C","D","E","F","G","H","I","J","K","L","M","N","O","P","Q","R","S","T","U","V","W","X","Y","Z">>

LowerSeq == <<"a","b","c","d","e","f","g","h","i","j","k","l","m","n","o","p","q","r","s","t","u","v","w","x","y","z">>

Range(s) == {s[i] : i \in DOMAIN s}

Upper == Range(UpperSeq)

Alpha == Upper \cup Range(LowerSeq)

Digit == {"0","1","2","3","4","5","6","7","8","9"}

\* str.strip(), str.split() and the regex class \s: whitespace
Space == {" ", "\t", "\n", "\r"}

Punct == {".", "_", "%", "+", "-", "@", ":", ",", "/"}

Char == Alpha \cup Digit \cup Space \cup Punct

NotNewline == Char \ {"\n"}

NonSpace == Char \ Space

\* the value None, which is no string
None == <<"None">>

IsStr(v) == v \in Seq(Char)

Min(a, b) == IF a < b THEN a ELSE b

\* str.lower() on one character
LowerChar(c) == IF c \in Upper THEN LowerSeq[CHOOSE i \in DOMAIN UpperSeq : UpperSeq[i] = c] ELSE c

\* str.lower()
lower(s) == [i \in DOMAIN s |-> LowerChar(s[i])]

\* number of consecutive characters of t from position p on that lie in S
RECURSIVE RunLen(_, _, _)
RunLen(t, p, S) == IF p > Len(t) \/ t[p] \notin S THEN 0 ELSE 1 + RunLen(t, p + 1, S)

\* number of consecutive characters of t from position p backwards that lie in S
RECURSIVE RunLenBack(_, _, _)
RunLenBack(t, p, S) == IF p < 1 \/ t[p] \notin S THEN 0 ELSE 1 + RunLenBack(t, p - 1, S)

\* str.strip(): leading and trailing whitespace removed
strip(s) ==
  LET a == RunLen(s, 1, Space)
  IN  IF a = Len(s) THEN <<>> ELSE SubSeq(s, a + 1, Len(s) - RunLenBack(s, Len(s), Space))

\* str.split("\n"): the pieces between line breaks, empty pieces kept
RECURSIVE split_nl(_)
split_nl(t) ==
  LET n == RunLen(t, 1, NotNewline)
  IN  IF n = Len(t) THEN <<t>> ELSE <<SubSeq(t, 1, n)>> \o split_nl(SubSeq(t, n + 2, Len(t)))

\* len(line.split()): the number of maximal runs of non-whitespace
RECURSIVE word_count(_, _)
word_count(s, p) ==
  LET q == p + RunLen(s, p, Space)
  IN  IF q > Len(s) THEN 0 ELSE 1 + word_count(s, q + RunLen(s, q, NonSpace))

\* needle in haystack (substring test of the in operator on str)
contains(hay, needle) ==
  \E i \in 1..(Len(hay) - Len(needle) + 1) : SubSeq(hay, i, i + Len(needle) - 1) = needle

(***************************************************************************)
(* The constants of extract_details.                                       *)
(***************************************************************************)
\* the default of name, email and phone
NotFound == <<"N","o","t"," ","F","o","u","n","d">>

\* email_pattern: [a-zA-Z0-9._%+-]+ @ [a-zA-Z0-9.-]+ \. [a-zA-Z]{2,}
EmailLocalChars == Alpha \cup Digit \cup {".", "_", "%", "+", "-"}

EmailDomainChars == Alpha \cup Digit \cup {".", "-"}

EmailTldMin == 2

\* phone_pattern: ^ (?: (?:\+|00) [\s.-]{0,3} )? (?: \d [\s.-]{0,3} ){7,15} $
PhoneSepChars == Space \cup {".", "-"}

PhoneSepMax == 3

PhoneDigitsMin == 7

PhoneDigitsMax == 15

name_blacklist == <<<<"P","h","o","n","e">>, <<"M","o","b","i","l","e">>, <<"E","m","a","i","l">>, <<"W","e","b">>, <<"A","d","d","r","e","s","s">>, <<"S","t","r","e","e","t">>, <<"F","a","x">>, <<"D","i","r","e","c","t">>>>

NameScanLines == 8

NameMinLen == 3

NameWordsMin == 2

NameWordsMax == 4

(***************************************************************************)
(* re.search(email_pattern, text).  A match is <<first, last>>, the        *)
(* positions of its first and last character; <<0, 0>> is no match.  Each  *)
(* greedy quantifier takes the longest run and gives characters back one   *)
(* by one until the rest of the pattern matches.                           *)
(***************************************************************************)
NoMatch == <<0, 0>>

\* [a-zA-Z]{2,} from position p: the last position matched, 0 if it fails
email_tld(t, p) ==
  LET n == RunLen(t, p, Alpha) IN IF n >= EmailTldMin THEN p + n - 1 ELSE 0

\* [a-zA-Z0-9.-]+ having taken k characters from p, then \.[a-zA-Z]{2,}
RECURSIVE email_domain(_, _, _)
email_domain(t, p, k) ==
  IF k < 1 THEN 0
  ELSE LET e == IF p + k <= Len(t) /\ t[p + k] = "." THEN email_tld(t, p + k + 1) ELSE 0
       IN  IF e # 0 THEN e ELSE email_domain(t, p, k - 1)

\* [a-zA-Z0-9._%+-]+ having taken k characters from p, then @ and the rest
RECURSIVE email_local(_, _, _)
email_local(t, p, k) ==
  IF k < 1 THEN 0
  ELSE LET d == p + k + 1
           e == IF p + k <= Len(t) /\ t[p + k] = "@"
                THEN email_domain(t, d, RunLen(t, d, EmailDomainChars)) ELSE 0
       IN  IF e # 0 THEN e ELSE email_local(t, p, k - 1)

email_match_at(t, i) == email_local(t, i, RunLen(t, i, EmailLocalChars))

\* the search tries the start positions from left to right
RECURSIVE email_search_from(_, _)
email_search_from(t, i) ==
  IF i > Len(t) THEN NoMatch
  ELSE LET e == email_match_at(t, i)
       IN  IF e # 0 THEN <<i, e>> ELSE email_search_from(t, i + 1)

\* re.match in place of re.search: the pattern is tried at the start only
email_search_at_start(t) ==
  IF email_match_at(t, 1) # 0 THEN <<1, email_match_at(t, 1)>> ELSE NoMatch

email_search(t) == email_search_from(t, 1)

(***************************************************************************)
(* re.search(phone_pattern, text).  The pattern is compiled without        *)
(* re.MULTILINE: ^ matches at the start of the text only, and $ at its end *)
(* or before a newline that ends it.  \s and so the separator class hold   *)
(* the newline.                                                            *)
(***************************************************************************)
\* ^ at position p (the position of the next character)
phone_at_start(t, p) == p = 1

\* $ at position p
phone_at_end(t, p) == p = Len(t) + 1 \/ (p = Len(t) /\ t[p] = "\n")

\* (?:\d[\s.-]{0,3}){7,15}$ from position p after n repetitions: the last
\* position matched, 0 if it fails.  phone_seps is the separator run of one
\* repetition having taken k characters.
RECURSIVE phone_digits(_, _, _)
RECURSIVE phone_seps(_, _, _, _)
phone_digits(t, p, n) ==
  LET more == IF n < PhoneDigitsMax /\ p <= Len(t) /\ t[p] \in Digit
              THEN phone_seps(t, p + 1, Min(PhoneSepMax, RunLen(t, p + 1, PhoneSepChars)), n + 1)
              ELSE 0
  IN  IF more # 0 THEN more
      ELSE IF n >= PhoneDigitsMin /\ phone_at_end(t, p) THEN p - 1 ELSE 0

phone_seps(t, p, k, n) ==
  IF k < 0 THEN 0
  ELSE LET e == phone_digits(t, p + k, n)
       IN  IF e # 0 THEN e ELSE phone_seps(t, p, k - 1, n)

\* [\s.-]{0,3} after the prefix, having taken k characters, then the digits
RECURSIVE phone_prefix_seps(_, _, _)
phone_prefix_seps(t, p, k) ==
  IF k < 0 THEN 0
  ELSE LET e == phone_digits(t, p + k, 0)
       IN  IF e # 0 THEN e ELSE phone_prefix_seps(t, p, k - 1)

\* (?:\+|00) at position p: the position after it, 0 if neither alternative matches
phone_prefix(t, p) ==
  IF p <= Len(t) /\ t[p] = "+" THEN p + 1
  ELSE IF p + 1 <= Len(t) /\ t[p] = "0" /\ t[p + 1] = "0" THEN p + 2 ELSE 0

\* the whole pattern tried at start position i
phone_match_at(t, i) ==
  IF ~phone_at_start(t, i) THEN 0
  ELSE LET q == phone_prefix(t, i)
           with == IF q # 0
                   THEN phone_prefix_seps(t, q, Min(PhoneSepMax, RunLen(t, q, PhoneSepChars)))
                   ELSE 0
       IN  IF with # 0 THEN with ELSE phone_digits(t, i, 0)

RECURSIVE phone_search_from(_, _)
phone_search_from(t, i) ==
  IF i > Len(t) + 1 THEN NoMatch
  ELSE LET e == phone_match_at(t, i)
       IN  IF e # 0 THEN <<i, e>> ELSE phone_search_from(t, i + 1)

phone_search(t) == phone_search_from(t, 1)

\* match.group()
group(t, m) == SubSeq(t, m[1], m[2])

(***************************************************************************)
(* The name heuristic of extract_details.                                  *)
(***************************************************************************)
\* lines = [line.strip() for line in text.split("\n") if line.strip()]
RECURSIVE stripped_nonempty(_, _)
stripped_nonempty(pieces, i) ==
  IF i > Len(pieces) THEN <<>>
  ELSE LET l == strip(pieces[i])
       IN  (IF l # <<>> THEN <<l>> ELSE <<>>) \o stripped_nonempty(pieces, i + 1)

lines_of(t) == stripped_nonempty(split_nl(t), 1)

\* the four "continue" tests of the loop
name_noise(line) ==
  \/ Len(line) < NameMinLen
  \/ "@" \in Range(line)
  \/ \E i \in DOMAIN line : line[i] \in Digit
  \/ LET low == lower(line)
     IN  \E w \in DOMAIN name_blacklist : contains(low, lower(name_blacklist[w]))

\* the loop with the digit test left out
name_accepts_digits(line) ==
  /\ Len(line) >= NameMinLen
  /\ "@" \notin Range(line)
  /\ ~\E w \in DOMAIN name_blacklist : contains(lower(line), lower(name_blacklist[w]))
  /\ LET n == word_count(line, 1) IN NameWordsMin <= n /\ n <= NameWordsMax

name_accepts(line) ==
  /\ ~name_noise(line)
  /\ LET n == word_count(line, 1) IN NameWordsMin <= n /\ n <= NameWordsMax

\* the loop without its break: the last accepted line wins
RECURSIVE name_scan_no_break(_, _, _)
name_scan_no_break(ls, i, name) ==
  IF i > Min(NameScanLines, Len(ls)) THEN name
  ELSE name_scan_no_break(ls, i + 1, IF name_accepts(ls[i]) THEN ls[i] ELSE name)

\* for line in lines[:8], from the i-th line on: the value of name after the loop,
\* the line at the break or else the value name had before
RECURSIVE name_scan(_, _, _)
name_scan(ls, i, name) ==
  IF i > Min(NameScanLines, Len(ls)) THEN name
  ELSE IF name_accepts(ls[i]) THEN ls[i] ELSE name_scan(ls, i + 1, name)

(***************************************************************************)
(* The inputs: texts made of the lines of a business card.                 *)
(***************************************************************************)
L_name == <<"J","o","h","n"," ","S","m","i","t","h">>

L_title == <<"S","e","n","i","o","r"," ","E","n","g","i","n","e","e","r">>

L_company == <<"A","c","m","e"," ","C","o","r","p">>

L_email == <<"j","o","h","n",".","s","m","i","t","h","@","a","c","m","e",".","c","o","m">>

L_phone == <<"+","1"," ","5","5","5"," ","1","2","3"," ","4","5","6","7">>

L_label == <<"P","h","o","n","e",":"," ","5","5","5","-","1","2","3","4">>

L_sentence == <<"R","e","a","c","h"," ","m","e"," ","a","t"," ","x","@","y",".","c","o","m"," ","f","o","r"," ","d","e","t","a","i","l","s">>

L_blank == <<>>

L_padded == <<" "," ","5","5","5"," ","1","2","3","4"," ">>

L_sentinel == <<"N","o","t"," ","F","o","u","n","d">>

L_web == <<"W","e","b"," ","D","e","s","i","g","n","e","r">>

L_long == <<"a"," ","b"," ","c"," ","d"," ","e">>

L_d4 == <<"1","2","3","4">>

L_email2 == <<"z","@","q",".","i","o">>

L_nested == <<"a",".","b","@","c",".","d","1",".","e","e","@","f",".","g","g">>

L_filler == <<"x","1">>

LinePool == {L_name, L_title, L_email, L_phone, L_label, L_sentence, L_blank,
             L_padded, L_sentinel, L_web, L_long, L_d4, L_email2, L_nested}

\* the card of the specification's example
SampleCard == <<L_name, L_title, L_company, L_email, L_phone>>

MaxLines == 2

MaxPad == 8

\* "\n".join(ls)
RECURSIVE Join(_)
Join(ls) == IF Len(ls) = 0 THEN <<>>
            ELSE IF Len(ls) = 1 THEN ls[1] ELSE ls[1] \o <<"\n">> \o Join(Tail(ls))

Fillers(k) == [i \in 1..k |-> L_filler]

\* up to MaxPad filler lines, then up to MaxLines lines of the pool
Texts ==
  {Join(SampleCard)} \cup
  {Join(Fillers(k) \o ls) : k \in 0..MaxPad, ls \in UNION {[1..n -> LinePool] : n \in 0..MaxLines}}

\* arguments that are no str: None, an int, a bytes object
NonText == {None, <<"int">>, <<"bytes">>}

Inputs == Texts \cup NonText

\* the texts of the concurrent callers
CallTexts == {Join(SampleCard), L_sentence}

Procs == {1, 2}

Identifiers == {"default"}

OCR_RATE_LIMIT == 2

MaxClock == 5

(***************************************************************************)
(* State.  inv[p] is the frame of caller p's invocation of                 *)
(* extract_details: its argument and its local variables.  outputs is the  *)
(* history of <<text, result>> of the invocations that returned.           *)
(* last_ocr_call is the module's dict, clock the wall clock in seconds,    *)
(* rl the frame of the caller of check_rate_limit and returns[id] the      *)
(* instants of the last two returns of check_rate_limit(id).               *)
(***************************************************************************)
Idle == [pc |-> "idle", text |-> <<>>, name |-> <<>>, email |-> <<>>, phone |-> <<>>,
         email_match |-> NoMatch, phone_match |-> NoMatch]

\* the defaults left as None
Called_none(x) == [pc |-> "called", text |-> x, name |-> None, email |-> None,
                   phone |-> None, email_match |-> NoMatch, phone_match |-> NoMatch]

\* name kept in a module-level variable that is not reset between invocations
Called_shared(x) ==
  [pc |-> "called", text |-> x,
   name |-> IF outputs = {} THEN NotFound
            ELSE (CHOOSE o \in outputs : \A o2 \in outputs : Len(o2[2][1]) <= Len(o[2][1]))[2][1],
   email |-> NotFound, phone |-> NotFound, email_match |-> NoMatch, phone_match |-> NoMatch]

\* lines 191-196: the call and the three defaults
Called(x) == [pc |-> "called", text |-> x, name |-> NotFound, email |-> NotFound,
              phone |-> NotFound, email_match |-> NoMatch, phone_match |-> NoMatch]

RlIdle == [pc |-> "idle", id |-> "default", now |-> 0, wake |-> 0]

EmptyDict == [x \in {} |-> 0]

LimiterInit ==
  /\ clock = 0
  /\ last_ocr_call = EmptyDict
  /\ rl = RlIdle
  /\ returns = [id \in Identifiers |-> <<>>]

\* no call of ocr_space_file is under way
OcrIdle == [pc |-> "idle", attempt |-> 0, sent |-> 0, hist |-> <<>>, wait_time |-> 0,
            result |-> "", error |-> ""]

Init ==
  /\ inv = [p \in Procs |-> Idle]
  /\ outputs = {}
  /\ LimiterInit
  /\ ocr = OcrIdle

\* one invocation, on any input
InitExtract ==
  /\ \E x \in Inputs : inv = [p \in Procs |-> IF p = 1 THEN Called(x) ELSE Idle]
  /\ outputs = {}
  /\ LimiterInit
  /\ ocr = OcrIdle

Limiter == <<clock, last_ocr_call, rl, returns>>

(***************************************************************************)
(* extract_details, step by step.                                          *)
(***************************************************************************)
Call(p, x) ==
  /\ inv[p].pc = "idle"
  /\ inv' = [inv EXCEPT ![p] = Called(x)]
  /\ UNCHANGED <<outputs, Limiter>>

\* the exception swallowed: the defaults are returned
SearchSwallow(p) ==
  /\ inv[p].pc = "called"
  /\ ~IsStr(inv[p].text)
  /\ inv' = [inv EXCEPT ![p].pc = "done"]
  /\ outputs' = outputs \cup {<<inv[p].text, <<inv[p].name, inv[p].email, inv[p].phone>>>>}
  /\ UNCHANGED Limiter

\* lines 202-203: re.search raises TypeError on an argument that is no str
SearchRaise(p) ==
  /\ inv[p].pc = "called"
  /\ ~IsStr(inv[p].text)
  /\ inv' = [inv EXCEPT ![p].pc = "TypeError"]
  /\ UNCHANGED <<outputs, Limiter>>

\* lines 202-203
Search(p) ==
  /\ inv[p].pc = "called"
  /\ IsStr(inv[p].text)
  /\ inv' = [inv EXCEPT ![p].pc = "searched",
                        ![p].email_match = email_search(inv[p].text),
                        ![p].phone_match = phone_search(inv[p].text)]
  /\ UNCHANGED <<outputs, Limiter>>

\* lines 205-222
Scan(p) ==
  /\ inv[p].pc = "searched"
  /\ inv' = [inv EXCEPT ![p].pc = "scanned",
                        ![p].name = name_scan(lines_of(inv[p].text), 1, inv[p].name)]
  /\ UNCHANGED <<outputs, Limiter>>

\* the field assembler of the production path (module extraction)
FieldKeys == {"Name", "JobTitle", "Company", "Email", "Phone", "Address", "Website"}

extract_business_card_details(name, email, phone) ==
  [k \in FieldKeys |->
     CASE k = "Name" -> name [] k = "Email" -> email [] k = "Phone" -> phone [] OTHER -> NotFound]

\* phone overwritten with the empty string
Return_empty_phone(p) ==
  /\ inv[p].pc = "scanned"
  /\ LET f == inv[p]
         email == IF f.email_match # NoMatch THEN group(f.text, f.email_match) ELSE f.email
         phone == <<>>
     IN  /\ inv' = [inv EXCEPT ![p].pc = "done", ![p].email = email, ![p].phone = phone]
         /\ outputs' = outputs \cup {<<f.text, <<f.name, email, phone>>>>}
  /\ UNCHANGED Limiter

\* lines 224-231
Return(p) ==
  /\ inv[p].pc = "scanned"
  /\ LET f == inv[p]
         email == IF f.email_match # NoMatch THEN group(f.text, f.email_match) ELSE f.email
         phone == IF f.phone_match # NoMatch THEN strip(group(f.text, f.phone_match)) ELSE f.phone
     IN  /\ inv' = [inv EXCEPT ![p].pc = "done", ![p].email = email, ![p].phone = phone]
         /\ outputs' = outputs \cup {<<f.text, <<f.name, email, phone>>>>}
  /\ UNCHANGED Limiter

\* the caller drops the result (or the exception) and may call again
Finish(p) ==
  /\ inv[p].pc \in {"done", "TypeError"}
  /\ inv' = [inv EXCEPT ![p] = Idle]
  /\ UNCHANGED <<outputs, Limiter>>

(***************************************************************************)
(* check_rate_limit, step by step.  Time passes while the caller is        *)
(* between calls or asleep; the statements themselves take no time.        *)
(***************************************************************************)
\* lines 108-115: now is read, and the call sleeps when the last call is too recent
RlEnter(id) ==
  /\ rl.pc = "idle"
  /\ LET now == clock
         time_diff == now - last_ocr_call[id]
     IN  IF id \in DOMAIN last_ocr_call /\ time_diff < OCR_RATE_LIMIT
         THEN rl' = [pc |-> "sleeping", id |-> id, now |-> now,
                     wake |-> clock + (OCR_RATE_LIMIT - time_diff)]
         ELSE rl' = [pc |-> "store", id |-> id, now |-> now, wake |-> 0]
  /\ UNCHANGED <<inv, outputs, clock, last_ocr_call, returns>>

\* line 115: time.sleep(wait_time) returns once wait_time has passed
RlWake ==
  /\ rl.pc = "sleeping"
  /\ clock >= rl.wake
  /\ rl' = [rl EXCEPT !.pc = "store"]
  /\ UNCHANGED <<inv, outputs, clock, last_ocr_call, returns>>

\* line 117, and the return
RlStore ==
  /\ rl.pc = "store"
  /\ last_ocr_call' = [x \in DOMAIN last_ocr_call \cup {rl.id} |->
                         IF x = rl.id THEN rl.now ELSE last_ocr_call[x]]
  /\ returns' = [returns EXCEPT ![rl.id] =
                   IF Len(@) = 0 THEN <<clock>> ELSE <<@[Len(@)], clock>>]
  /\ rl' = RlIdle
  /\ UNCHANGED <<inv, outputs, clock>>

Tick ==
  /\ rl.pc \in {"idle", "sleeping"}
  /\ clock < MaxClock
  /\ clock' = clock + 1
  /\ UNCHANGED <<inv, outputs, last_ocr_call, rl, returns>>

Next ==
  \/ \E p \in Procs, x \in CallTexts : Call(p, x) /\ UNCHANGED ocr
  \/ \E p \in Procs : Search(p) /\ UNCHANGED ocr
  \/ \E p \in Procs : Scan(p) /\ UNCHANGED ocr
  \/ \E p \in Procs : Return(p) /\ UNCHANGED ocr
  \/ \E p \in Procs : Finish(p) /\ UNCHANGED ocr
  \/ \E id \in Identifiers : RlEnter(id) /\ UNCHANGED ocr
  \/ RlWake /\ UNCHANGED ocr
  \/ RlStore /\ UNCHANGED ocr
  \/ Tick /\ UNCHANGED ocr

Spec == Init /\ [][Next]_vars

NextExtract ==
  \/ SearchRaise(1) /\ UNCHANGED ocr
  \/ Search(1) /\ UNCHANGED ocr
  \/ Scan(1) /\ UNCHANGED ocr
  \/ Return(1) /\ UNCHANGED ocr

SpecExtract == InitExtract /\ [][NextExtract]_vars

(***************************************************************************)
(* ocr_space_file: the call of check_rate_limit, then the retry loop.      *)
(* ocr.attempt is the loop variable, ocr.sent the number of requests       *)
(* posted by this call and ocr.hist what each of them came back with.      *)
(***************************************************************************)
max_retries == 3

\* the ParsedText of a response with parsed results
ParsedText == "John Smith"

\* what one pass of the try block meets: a response with parsed results, one
\* without, one errored on processing whose ErrorMessage holds "rate limit" or
\* "quota" or neither, one whose ErrorMessage is no str (lower() fails), a
\* requests Timeout, another exception whose text holds "rate limit", any
\* other exception
Responses == {"parsed", "no_results", "rate_limit", "quota", "other_error", "error_no_str",
              "timeout", "exception_rate_limit", "exception"}

\* the guard of the three retries with the last attempt let through
retry_allowed_off_by_one(attempt) == attempt < max_retries

\* lines 161, 178, 185: attempt < max_retries - 1
retry_allowed(attempt) == attempt < max_retries - 1

\* line 147, after a continue: the next value of range(max_retries), or the end
\* of the loop and of the function, which then returns None
loop_next(f) ==
  IF f.attempt + 1 < max_retries
  THEN [f EXCEPT !.pc = "request", !.attempt = f.attempt + 1, !.wait_time = 0]
  ELSE [f EXCEPT !.pc = "fell_out", !.attempt = f.attempt + 1, !.wait_time = 0]

raise(f, e) == [f EXCEPT !.pc = "raised", !.error = e]

\* lines 120-134: the call, up to the call of check_rate_limit
OcrCall ==
  /\ ocr.pc = "idle"
  /\ rl.pc = "idle"
  /\ ocr' = [OcrIdle EXCEPT !.pc = "limit"]
  /\ UNCHANGED <<inv, outputs, Limiter>>

\* line 134: check_rate_limit() is entered, sleeps and returns
OcrLimitEnter ==
  /\ ocr.pc = "limit"
  /\ RlEnter("default")
  /\ ocr' = [ocr EXCEPT !.pc = "limiting"]

OcrLimitWake ==
  /\ ocr.pc = "limiting"
  /\ RlWake
  /\ UNCHANGED ocr

\* lines 136-147: the payload, and the first pass of the loop
OcrLimitReturn ==
  /\ ocr.pc = "limiting"
  /\ RlStore
  /\ ocr' = [ocr EXCEPT !.pc = "request"]

\* lines 149-155: the request is posted and comes back with r
OcrRequest(r) ==
  /\ ocr.pc = "request"
  /\ ocr' = [ocr EXCEPT !.pc = "handle", !.sent = @ + 1, !.hist = Append(@, r)]
  /\ UNCHANGED <<inv, outputs, Limiter>>

\* lines 157-188: what the pass does with it
OcrHandle ==
  /\ ocr.pc = "handle"
  /\ LET r == ocr.hist[Len(ocr.hist)]
     IN  ocr' =
           CASE r = "parsed" -> [ocr EXCEPT !.pc = "returned", !.result = ParsedText]
             [] r = "no_results" -> [ocr EXCEPT !.pc = "returned", !.result = ""]
             [] r \in {"rate_limit", "quota"} ->
                  IF retry_allowed(ocr.attempt)
                  THEN [ocr EXCEPT !.pc = "backoff", !.wait_time = (ocr.attempt + 1) * 5]
                  ELSE raise(ocr, "OCR Rate limit exceeded after 3 attempts")
             [] r = "other_error" -> raise(ocr, "OCR Error")
             [] r = "error_no_str" -> raise(ocr, "AttributeError")
             [] r = "timeout" ->
                  IF retry_allowed(ocr.attempt)
                  THEN [ocr EXCEPT !.pc = "backoff", !.wait_time = 5]
                  ELSE raise(ocr, "OCR API timeout after retries")
             [] r = "exception_rate_limit" ->
                  IF retry_allowed(ocr.attempt) THEN loop_next(ocr)
                  ELSE raise(ocr, "exception")
             [] OTHER -> raise(ocr, "exception")
  /\ UNCHANGED <<inv, outputs, Limiter>>

\* lines 164-165, 180-181: time.sleep returns, continue
OcrBackoffOver ==
  /\ ocr.pc = "backoff"
  /\ ocr' = loop_next(ocr)
  /\ UNCHANGED <<inv, outputs, Limiter>>

\* index, lines 265-285: the caller takes the text or the exception
OcrFinish ==
  /\ ocr.pc \in {"returned", "raised", "fell_out"}
  /\ ocr' = OcrIdle
  /\ UNCHANGED <<inv, outputs, Limiter>>

NextOcr ==
  \/ OcrCall
  \/ OcrLimitEnter /\ UNCHANGED <<inv, outputs>>
  \/ OcrLimitWake
  \/ OcrLimitReturn
  \/ \E r \in Responses : OcrRequest(r)
  \/ OcrHandle
  \/ OcrBackoffOver
  \/ OcrFinish
  \/ Tick /\ UNCHANGED ocr

SpecOcr == Init /\ [][NextOcr]_vars

(***************************************************************************)
(* The properties.  The shapes below are stated from the specification's   *)
(* words, independently of the matchers above.                             *)
(***************************************************************************)
Done(p) == inv[p].pc = "done"

AllIn(t, a, b, S) == \A x \in a..b : t[x] \in S

\* separators of the phone shape: space, dot or hyphen
ShapeSep == {" ", ".", "-"}

\* s from position a on: 7 to 15 digits, each followed by at most 3 separators
ShapeDigits(s, a) ==
  /\ a <= Len(s)
  /\ s[a] \in Digit
  /\ AllIn(s, a, Len(s), Digit \cup ShapeSep)
  /\ \A x \in a..(Len(s) - PhoneSepMax) : ~AllIn(s, x, x + PhoneSepMax, ShapeSep)
  /\ Cardinality({x \in a..Len(s) : s[x] \in Digit}) \in PhoneDigitsMin..PhoneDigitsMax

\* a line that in its entirety is phone-number-shaped
PhoneShaped(s) ==
  \/ ShapeDigits(s, 1)
  \/ \E a \in 2..(2 + PhoneSepMax) :
       /\ a <= Len(s) /\ s[1] = "+" /\ AllIn(s, 2, a - 1, ShapeSep) /\ ShapeDigits(s, a)
  \/ \E a \in 3..(3 + PhoneSepMax) :
       /\ a <= Len(s) /\ s[1] = "0" /\ s[2] = "0" /\ AllIn(s, 3, a - 1, ShapeSep)
       /\ ShapeDigits(s, a)

\* the first phone-shaped line, or the sentinel
FirstPhoneLine(ls) ==
  IF \E i \in DOMAIN ls : PhoneShaped(ls[i])
  THEN ls[CHOOSE i \in DOMAIN ls : PhoneShaped(ls[i]) /\ \A j \in 1..(i - 1) : ~PhoneShaped(ls[j])]
  ELSE NotFound

\* C1: Phone is the first line that in its entirety is phone-number-shaped, also
\* among other lines; on the five-line sample card Phone is "+1 555 123 4567".
C1_PhoneIsFirstPhoneLine ==
  \A p \in Procs : Done(p) =>
    /\ inv[p].phone = FirstPhoneLine(lines_of(inv[p].text))
    /\ inv[p].text = Join(SampleCard) => inv[p].phone = L_phone

\* C2: Phone is the sentinel or exactly one of the segmented lines of the input,
\* never a part of a line and never a span across a line break.
C2_PhoneIsOneLine ==
  \A p \in Procs : Done(p) =>
    \/ inv[p].phone = NotFound
    \/ inv[p].phone \in Range(lines_of(inv[p].text))

\* the spans <<i, j>> of t of the shape local-part @ domain . tld
EmailSpans(t) ==
  UNION {UNION {{<<i, j>> \in (1..(a - 1)) \X ((d + EmailTldMin)..Len(t)) :
                   /\ AllIn(t, i, a - 1, EmailLocalChars)
                   /\ AllIn(t, a + 1, d - 1, EmailDomainChars)
                   /\ AllIn(t, d + 1, j, Alpha)} :
                d \in {x \in (a + 2)..Len(t) : t[x] = "."}} :
         a \in {x \in DOMAIN t : t[x] = "@"}}

\* C3: Email is the leftmost substring of the text of the shape
\* local-part@domain.tld, wherever in a line it stands, and the sentinel exactly
\* when the text holds no such substring.
C3_EmailIsLeftmostSubstring ==
  \A p \in Procs : Done(p) =>
    LET t == inv[p].text
        S == EmailSpans(t)
    IN  /\ inv[p].email = NotFound <=> S = {}
        /\ S # {} => \E m \in S : /\ inv[p].email = SubSeq(t, m[1], m[2])
                                  /\ \A o \in S : m[1] <= o[1]

C3_Witness ==
  /\ Done(1)
  /\ inv[1].text = Join(<<L_sentence, L_email2>>)
  /\ inv[1].email = <<"x","@","y",".","c","o","m">>

\* the words that mark a labelled field
LabelWords == {<<"P","h","o","n","e">>, <<"M","o","b","i","l","e">>, <<"E","m","a","i","l">>, <<"W","e","b">>, <<"A","d","d","r","e","s","s">>, <<"S","t","r","e","e","t">>, <<"F","a","x">>, <<"D","i","r","e","c","t">>}

HasWord(line, w) ==
  \E i \in 1..(Len(line) - Len(w) + 1) :
    \A k \in DOMAIN w : LowerChar(line[i + k - 1]) = LowerChar(w[k])

\* the number of whitespace-separated words
Words(line) ==
  Cardinality({i \in DOMAIN line : line[i] \notin Space /\ (i = 1 \/ line[i - 1] \in Space)})

Rejected(line) ==
  \/ Len(line) < 3
  \/ \E i \in DOMAIN line : line[i] = "@"
  \/ \E i \in DOMAIN line : line[i] \in Digit
  \/ \E w \in LabelWords : HasWord(line, w)

Qualifies(line) == ~Rejected(line) /\ Words(line) \in 2..4

\* the first 8 lines
Header(t) == LET ls == lines_of(t) IN SubSeq(ls, 1, Min(8, Len(ls)))

\* C4: a Name other than the sentinel is one of the first 8 lines, of at least 3
\* characters, without '@', digit or label word, and of 2 to 4 words; when each of
\* the first 8 lines holds a digit or a label word, Name is the sentinel.
C4_NameIsCleanHeaderLine ==
  \A p \in Procs : Done(p) =>
    LET h == Header(inv[p].text)
        n == inv[p].name
    IN  /\ n # NotFound =>
             /\ \E i \in DOMAIN h : h[i] = n
             /\ Len(n) >= 3
             /\ "@" \notin Range(n)
             /\ Range(n) \cap Digit = {}
             /\ \A w \in LabelWords : ~HasWord(n, w)
             /\ Words(n) \in 2..4
        /\ (\A i \in DOMAIN h : \/ \E x \in DOMAIN h[i] : h[i][x] \in Digit
                                \/ \E w \in LabelWords : HasWord(h[i], w))
             => n = NotFound

C4_Witness ==
  /\ Done(1)
  /\ inv[1].text = Join(<<L_web, L_name>>)
  /\ inv[1].name = L_name

\* the earliest qualifying line of the first 8 is Name
EarliestQualifying(p) ==
  LET h == Header(inv[p].text)
  IN  \A i \in DOMAIN h :
        (Qualifies(h[i]) /\ \A j \in 1..(i - 1) : ~Qualifies(h[j])) => inv[p].name = h[i]

\* C5 as stated: Name is the earliest qualifying line of the first 8, and the
\* sentinel exactly when none of the first 8 lines qualifies.
C5_NameSentinelIffNoneQualifies ==
  \A p \in Procs : Done(p) =>
    LET h == Header(inv[p].text)
    IN  /\ EarliestQualifying(p)
        /\ inv[p].name = NotFound <=> \A i \in DOMAIN h : ~Qualifies(h[i])

\* C5 as amended: Name is the earliest qualifying line of the first 8, whatever
\* the lines from the 9th on are, and the sentinel when none of the first 8
\* qualifies.
C5_NameIsEarliestQualifying ==
  \A p \in Procs : Done(p) =>
    LET h == Header(inv[p].text)
    IN  /\ EarliestQualifying(p)
        /\ (\A i \in DOMAIN h : ~Qualifies(h[i])) => inv[p].name = NotFound

C5_Witness ==
  /\ Done(1)
  /\ inv[1].text = Join(Fillers(7) \o <<L_name, L_title>>)
  /\ inv[1].name = L_name

\* the record of an invocation that returned
Record(p) == extract_business_card_details(inv[p].name, inv[p].email, inv[p].phone)

C7_TotalOnStrings ==
  \A p \in Procs : (IsStr(inv[p].text) /\ inv[p].pc # "idle") =>
    /\ inv[p].pc \in {"called", "searched", "scanned", "done"}
    /\ Done(p) =>
         /\ EmailSpans(inv[p].text) = {} => inv[p].email = NotFound
         /\ inv[p].phone_match = NoMatch => inv[p].phone = NotFound
         /\ LET h == Header(inv[p].text)
            IN  (\A i \in DOMAIN h : ~Qualifies(h[i])) => inv[p].name = NotFound
         /\ inv[p].text = <<>> =>
              <<inv[p].name, inv[p].email, inv[p].phone>> = <<NotFound, NotFound, NotFound>>

C7_Witness ==
  /\ Done(1)
  /\ inv[1].text = <<>>
  /\ <<inv[1].name, inv[1].email, inv[1].phone>> = <<NotFound, NotFound, NotFound>>

\* no record, whole or partial, came back for the argument of p
NoRecord(p) == ~Done(p) /\ \A o \in outputs : o[1] # inv[p].text

\* C8 as stated: on an argument that is no text, extraction signals an
\* InvalidInputError and returns no record.
C8_SignalsInvalidInputError ==
  \A p \in Procs : (~IsStr(inv[p].text) /\ inv[p].pc # "called") =>
    inv[p].pc = "InvalidInputError" /\ NoRecord(p)

\* C8 as amended: on an argument that is no text, extraction signals the
\* TypeError of re.search and returns no record.
C8_SignalsTypeError ==
  \A p \in Procs : ~IsStr(inv[p].text) =>
    /\ inv[p].pc \in {"called", "TypeError"}
    /\ inv[p].pc = "called" => ENABLED SearchRaise(p)
    /\ NoRecord(p)

C8_Witness ==
  /\ inv[1].text = None
  /\ inv[1].pc = "TypeError"
  /\ outputs = {}

\* C9: two invocations on the same text return the same output, whatever ran
\* before or in between: the result depends on no process-wide variable.
C9_SameTextSameOutput ==
  /\ \A o1 \in outputs, o2 \in outputs : o1[1] = o2[1] => o1[2] = o2[2]
  /\ \A p \in Procs : Done(p) => <<inv[p].text, <<inv[p].name, inv[p].email, inv[p].phone>>>> \in outputs

C9_Witness ==
  /\ Done(1)
  /\ Done(2)
  /\ inv[1].text = inv[2].text
  /\ Cardinality(outputs) = 2
  /\ last_ocr_call # EmptyDict
  /\ rl.pc = "sleeping"

\* C10: two consecutive calls of check_rate_limit with the same identifier
\* return at least OCR_RATE_LIMIT seconds apart, also when the earlier one slept.
C10_ReturnsSpaced ==
  \A id \in Identifiers :
    Len(returns[id]) = 2 => returns[id][2] - returns[id][1] >= OCR_RATE_LIMIT

\* the passes of the loop that end in a continue
Retried == {"rate_limit", "quota", "timeout", "exception_rate_limit"}

\* C11: a call of ocr_space_file sends at most 3 requests and ends by returning
\* the parsed text (the empty string without parsed results) or by raising,
\* never by leaving the loop without a result; a request is followed by another
\* only after a rate-limit, quota or timeout answer and fewer than 3 attempts,
\* and another processing error is raised at once.
C11_AtMostThreeRequestsThenResult ==
  LET h == ocr.hist
      last == h[Len(h)]
  IN  /\ ocr.sent = Len(h) /\ ocr.sent <= 3
      /\ ocr.pc # "fell_out"
      /\ ocr.pc \in {"request", "handle", "backoff"} =>
           ENABLED ((\E r \in Responses : OcrRequest(r)) \/ OcrHandle \/ OcrBackoffOver)
      /\ \A i \in 1..(Len(h) - 1) : h[i] \in Retried /\ i < 3
      /\ ocr.pc = "backoff" => last \in {"rate_limit", "quota", "timeout"} /\ ocr.sent < 3
      /\ ocr.pc = "returned" =>
           /\ last \in {"parsed", "no_results"}
           /\ ocr.result = IF last = "parsed" THEN ParsedText ELSE ""
      /\ ocr.pc = "raised" =>
           /\ last \notin {"parsed", "no_results"}
           /\ last \in Retried => ocr.sent = 3
      /\ (ocr.pc \in {"request", "backoff", "returned", "raised"} /\ Len(h) > 0
            /\ last \in {"other_error", "error_no_str"}) => ocr.pc = "raised"

C11_Witness ==
  /\ ocr.pc = "raised"
  /\ ocr.hist = <<"rate_limit", "timeout", "quota">>
  /\ ocr.error = "OCR Rate limit exceeded after 3 attempts"
  /\ Len(returns["default"]) = 2

====
